---- MODULE Spec2Model ----
(***************************************************************************)
(* Model of tools/coin_gen.py: the click commands `check`, `coindefs` and  *)
(* `render`, the validation functions check_support / check_btc /          *)
(* check_backends and the coindefs generators (convert_icon,               *)
(* coindef_from_dict, serialize_coindef, sign).                            *)
(***************************************************************************)
EXTENDS Integers, Sequences, FiniteSets, TLC

\* ------------------------------------------------------------------ bounds
\* Largest number of bitcoin-like coins the registry holds (defs.coins).
MaxCoins == 2

\* ------------------------------------------------------------ registry data
\* Keys of the bitcoin-like coins, in registry order (coin i has key CoinKeys[i]).
CoinKeys == <<"bitcoin:BTC", "bitcoin:TEST", "bitcoin:LTC", "bitcoin:DOGE">>
\* A coin of defs.misc, a coin of another category (an ERC20 token) and a key
\* that is in no category of the registry.
MiscKey == "misc:XMR"
TokenKey == "erc20:eth:OMG"
UnknownKey == "bitcoin:GONE"

\* Every key, in the order the loops of the model visit sets and dicts.
AllKeys == CoinKeys \o <<MiscKey, TokenKey, UnknownKey>>

\* Address-version parameters (address_type, address_type_p2sh) a registry
\* entry may carry.
CoinParams ==
    { [address_type |-> 0, address_type_p2sh |-> 5],
      [address_type |-> 0, address_type_p2sh |-> 196],
      [address_type |-> 5, address_type_p2sh |-> 5] }

\* Icon files: a missing file, an image without alpha channel, RGBA images
\* (one representative pixel <<r, g, b, a>>).
NoIcon == [kind |-> "missing", pixel |-> <<0, 0, 0, 0>>]
IconsGood == { [kind |-> "RGBA", pixel |-> <<255, 136, 8, 255>>] }
IconsAll == IconsGood \cup
    { NoIcon, [kind |-> "RGB", pixel |-> <<255, 136, 8, 255>>] }

\* hash_genesis_block values: hex strings as sequences of characters.
GenesisGood == { <<"6", "f">> }
GenesisAll == GenesisGood \cup { <<"z", "z">> }

Coin(i, p, ic, g) ==
    [ key |-> CoinKeys[i],
      name |-> CoinKeys[i],
      address_type |-> p.address_type,
      address_type_p2sh |-> p.address_type_p2sh,
      icon |-> ic,
      hash_genesis_block |-> g,
      signed_message_header |-> <<"B">> ]

\* The lists coin_info.get_all().coins can be, with icons and genesis hashes
\* drawn from the given sets.
CoinLists(icons, gens) ==
    UNION { { cs \in [1..n -> [p : CoinParams, ic : icons, g : gens]] : TRUE }
            : n \in 0..MaxCoins }

MkCoins(f) == [i \in DOMAIN f |-> Coin(i, f[i].p, f[i].ic, f[i].g)]

\* Support entries: a version string, or a malformed value.
SupportEntries == { [trezor1 |-> "1.6.2"], [trezor1 |-> "bogus"] }

\* ------------------------------------------------------------------ helpers
RECURSIVE SeqOf(_, _)
\* The members of set S in the order of sequence `order`.
SeqOf(S, order) ==
    IF order = <<>> THEN <<>>
    ELSE (IF Head(order) \in S THEN <<Head(order)>> ELSE <<>>)
         \o SeqOf(S, Tail(order))

Range(s) == { s[i] : i \in DOMAIN s }

\* A printed line: severity prefix, message, the key (or field) it names and,
\* for a "- value : keys" line, the keys listed.
Line(sev, msg, key) == [sev |-> sev, msg |-> msg, key |-> key, dups |-> <<>>]

Count(lines, sev, msg) ==
    Cardinality({ i \in DOMAIN lines : lines[i].sev = sev /\ lines[i].msg = msg })

CountSev(lines, sev) ==
    Cardinality({ i \in DOMAIN lines : lines[i].sev = sev })

\* -------------------------------------------------- coin_info (not in src/)
\* defs.as_list(): the coins of every category, one list.
as_list(defs) == defs.coins \o defs.other \o defs.misc

\* validate_btc: the record's address parameters must be consistent.
validate_btc(coin) ==
    IF coin.address_type = coin.address_type_p2sh
    THEN <<"address_type must be distinct from address_type_p2sh">>
    ELSE <<>>

\* validate_support: every flag is a version string.
validate_support(support) ==
    IF support.trezor1 \in {"1.6.2"} THEN <<>>
    ELSE <<"trezor1: invalid support value">>

AddressFields == <<"address_type", "address_type_p2sh">>
FieldOf(coin, f) ==
    IF f = "address_type" THEN coin.address_type ELSE coin.address_type_p2sh

\* The keys of the coins whose field f has value v, in registry order.
Bucket(coins, f, v) ==
    LET idx == SelectSeq([i \in DOMAIN coins |-> i],
                         LAMBDA i : FieldOf(coins[i], f) = v)
    IN  [j \in DOMAIN idx |-> coins[idx[j]].key]

\* find_address_collisions: per monitored field, value -> keys for each value
\* shared by more than one coin.
find_address_collisions(coins) ==
    [ f \in Range(AddressFields) |->
        LET vals == { v \in { FieldOf(coins[i], f) : i \in DOMAIN coins } :
                        Len(Bucket(coins, f, v)) > 1 }
        IN  [v \in vals |-> Bucket(coins, f, v)] ]

\* ------------------------------------------------------ validation functions
ErrLines(errors) == [i \in DOMAIN errors |-> Line("", errors[i], "")]

RECURSIVE support_validate_loop(_, _, _)
\* for key, support in support_data.items(): validate_support
support_validate_loop(keys, support_data, st) ==
    IF keys = <<>> THEN st
    ELSE LET key == Head(keys)
             errors == validate_support(support_data[key])
             seen == [st EXCEPT !.validated = @ \cup {key}]
             nxt == IF errors # <<>>
                    THEN [seen EXCEPT
                            !.check_passed = FALSE,
                            !.out = @ \o <<Line("ERR", "invalid definition for", key)>>
                                      \o ErrLines(errors)]
                    ELSE seen
         IN  support_validate_loop(Tail(keys), support_data, nxt)

RECURSIVE support_missing_always_fails(_, _, _, _)
\* support_missing_loop with the fail_missing test dropped: a missing entry
\* is always an error.
support_missing_always_fails(expected, support_data, fail_missing, st) ==
    IF expected = <<>> THEN st
    ELSE LET coin == Head(expected)
             nxt == IF coin \notin DOMAIN support_data
                    THEN [st EXCEPT
                            !.check_passed = FALSE,
                            !.out = @ \o <<Line("ERR", "Missing support info for", coin)>>]
                    ELSE st
         IN  support_missing_always_fails(Tail(expected), support_data, fail_missing, nxt)

RECURSIVE support_missing_warns_only(_, _, _, _)
\* support_missing_loop with the fail_missing branch dropped: a missing entry
\* is always a warning.
support_missing_warns_only(expected, support_data, fail_missing, st) ==
    IF expected = <<>> THEN st
    ELSE LET coin == Head(expected)
             nxt == IF coin \notin DOMAIN support_data
                    THEN [st EXCEPT
                            !.out = @ \o <<Line("WARN", "Missing support info for", coin)>>]
                    ELSE st
         IN  support_missing_warns_only(Tail(expected), support_data, fail_missing, nxt)

RECURSIVE support_missing_loop(_, _, _, _)
\* for coin in expected_coins: detect missing support info
support_missing_loop(expected, support_data, fail_missing, st) ==
    IF expected = <<>> THEN st
    ELSE LET coin == Head(expected)
             nxt == IF coin \notin DOMAIN support_data
                    THEN IF fail_missing
                         THEN [st EXCEPT
                                 !.check_passed = FALSE,
                                 !.out = @ \o <<Line("ERR", "Missing support info for", coin)>>]
                         ELSE [st EXCEPT
                                 !.out = @ \o <<Line("WARN", "Missing support info for", coin)>>]
                    ELSE st
         IN  support_missing_loop(Tail(expected), support_data, fail_missing, nxt)

RECURSIVE support_unknown_override_fails(_, _, _, _)
\* support_unknown_loop with the override branch failing the check.
support_unknown_override_fails(keys, coin_set, expected_coins, st) ==
    IF keys = <<>> THEN st
    ELSE LET key == Head(keys)
             s1 == IF key \notin coin_set
                   THEN [st EXCEPT
                           !.check_passed = FALSE,
                           !.out = @ \o <<Line("ERR", "Support info found for unknown coin", key)>>]
                   ELSE st
             s2 == IF key \notin expected_coins
                   THEN [s1 EXCEPT
                           !.check_passed = FALSE,
                           !.out = @ \o <<Line("INFO", "Override present for coin", key)>>]
                   ELSE s1
         IN  support_unknown_override_fails(Tail(keys), coin_set, expected_coins, s2)

RECURSIVE support_unknown_loop(_, _, _, _)
\* for key in support_data: unknown coins fail, overrides are noted
support_unknown_loop(keys, coin_set, expected_coins, st) ==
    IF keys = <<>> THEN st
    ELSE LET key == Head(keys)
             s1 == IF key \notin coin_set
                   THEN [st EXCEPT
                           !.check_passed = FALSE,
                           !.out = @ \o <<Line("ERR", "Support info found for unknown coin", key)>>]
                   ELSE st
             s2 == IF key \notin expected_coins
                   THEN [s1 EXCEPT
                           !.out = @ \o <<Line("INFO", "Override present for coin", key)>>]
                   ELSE s1
         IN  support_unknown_loop(Tail(keys), coin_set, expected_coins, s2)

KeysOf(coins) == { coins[i].key : i \in DOMAIN coins }

\* expected_coins = set(coin["key"] for coin in defs.coins + defs.misc)
expected_coins(defs) == KeysOf(defs.coins \o defs.misc)

\* coin_set = set(coin["key"] for coin in coin_list)
coin_set(defs) == KeysOf(as_list(defs))

\* check_support(defs, support_data, fail_missing): [check_passed, out, validated]
check_support(defs, support_data, fail_missing) ==
    LET st0 == [check_passed |-> TRUE, out |-> <<>>, validated |-> {}]
        st1 == support_validate_loop(SeqOf(DOMAIN support_data, AllKeys),
                                     support_data, st0)
        st2 == support_missing_loop(SeqOf(expected_coins(defs), AllKeys),
                                    support_data, fail_missing, st1)
    IN  support_unknown_loop(SeqOf(DOMAIN support_data, AllKeys),
                             coin_set(defs), expected_coins(defs), st2)

RECURSIVE btc_validate_breaks(_, _, _)
\* btc_validate_loop leaving the loop at the first invalid coin.
btc_validate_breaks(coins, i, st) ==
    IF i > Len(coins) THEN st
    ELSE LET errors == validate_btc(coins[i])
             seen == [st EXCEPT !.validated = @ \cup {coins[i].key}]
         IN  IF errors # <<>>
             THEN [seen EXCEPT
                     !.check_passed = FALSE,
                     !.out = @ \o <<Line("ERR", "invalid definition for", coins[i].name)>>
                               \o ErrLines(errors)]
             ELSE btc_validate_breaks(coins, i + 1, seen)

RECURSIVE btc_validate_loop(_, _, _)
\* for coin in coins: validate_btc
btc_validate_loop(coins, i, st) ==
    IF i > Len(coins) THEN st
    ELSE LET errors == validate_btc(coins[i])
             seen == [st EXCEPT !.validated = @ \cup {coins[i].key}]
             nxt == IF errors # <<>>
                    THEN [seen EXCEPT
                            !.check_passed = FALSE,
                            !.out = @ \o <<Line("ERR", "invalid definition for", coins[i].name)>>
                                      \o ErrLines(errors)]
                    ELSE seen
         IN  btc_validate_loop(coins, i + 1, nxt)

\* The lines printed for one field's duplicates: "- value : keys".
DupLines(f, dups) ==
    LET vals == SeqOf(DOMAIN dups, <<0, 5, 196>>)
    IN  [j \in DOMAIN vals |-> [Line("-", ":", f) EXCEPT !.dups = dups[vals[j]]]]

RECURSIVE btc_collision_fails(_, _, _)
\* btc_collision_loop with a collision failing the check.
btc_collision_fails(fields, collisions, st) ==
    IF fields = <<>> THEN st
    ELSE LET key == Head(fields)
             dups == collisions[key]
             nxt == IF DOMAIN dups # {}
                    THEN [st EXCEPT
                            !.check_passed = FALSE,
                            !.out = @ \o <<Line("WARN", "collisions found in", key)>>
                                      \o DupLines(key, dups)]
                    ELSE st
         IN  btc_collision_fails(Tail(fields), collisions, nxt)

RECURSIVE btc_collision_loop(_, _, _)
\* for key, dups in collisions.items(): warning only
btc_collision_loop(fields, collisions, st) ==
    IF fields = <<>> THEN st
    ELSE LET key == Head(fields)
             dups == collisions[key]
             nxt == IF DOMAIN dups # {}
                    THEN [st EXCEPT
                            !.out = @ \o <<Line("WARN", "collisions found in", key)>>
                                      \o DupLines(key, dups)]
                    ELSE st
         IN  btc_collision_loop(Tail(fields), collisions, nxt)

\* check_btc(coins): [check_passed, out, validated]
check_btc(coins) ==
    LET st0 == [check_passed |-> TRUE, out |-> <<>>, validated |-> {}]
        st1 == btc_validate_loop(coins, 1, st0)
    IN  btc_collision_loop(AddressFields, find_address_collisions(coins), st1)

\* -------------------------------------------------------- coindefs generators
DIM == 32
KeyLen == 32
DigestLen == 32

HexDigits == <<"0", "1", "2", "3", "4", "5", "6", "7",
               "8", "9", "a", "b", "c", "d", "e", "f">>

\* binascii.hexlify: two lower-case hex digits per byte.
hexlify(bytes) ==
    [ i \in 1..(2 * Len(bytes)) |->
        IF i % 2 = 1 THEN HexDigits[(bytes[(i + 1) \div 2] \div 16) + 1]
                     ELSE HexDigits[(bytes[i \div 2] % 16) + 1] ]

HexVal(c) == (CHOOSE d \in DOMAIN HexDigits : HexDigits[d] = c) - 1
IsHex(chars) ==
    /\ Len(chars) % 2 = 0
    /\ \A i \in DOMAIN chars : chars[i] \in Range(HexDigits)

\* binascii.unhexlify, defined where IsHex holds (it raises otherwise).
unhexlify(chars) ==
    [ i \in 1..(Len(chars) \div 2) |->
        16 * HexVal(chars[2 * i - 1]) + HexVal(chars[2 * i]) ]

\* str.encode("utf-8") on the ASCII letters the headers are made of.
Utf8(chars) ==
    [ i \in DOMAIN chars |-> IF chars[i] = "B" THEN 66 ELSE 63 ]

\* The image modes Image.alpha_composite accepts against an RGBA background.
IconOpens(icon) == icon.kind # "missing"
IconConverts(icon) == icon.kind = "RGBA"

\* zlib stream of `data`: 2-byte header, deflate body, 4-byte Adler-32.  The
\* body of an image of `n` equal 16-bit pixels is modelled as its run.
ZlibHeader == <<24, 217>>
Deflate(n, unit) == unit \o <<n \div 256, n % 256>>
Adler32(n, unit) ==
    <<(unit[1] + n) % 256, (unit[2] + n) % 256, unit[1], unit[2]>>

\* convert_icon(icon): resize to DIM x DIM, flatten alpha onto black, pack
\* each pixel as RGB565 big-endian, compress, strip header and checksum.
convert_icon(icon) ==
    LET a == icon.pixel[4]
        r == (icon.pixel[1] * a) \div 255
        g == (icon.pixel[2] * a) \div 255
        b == (icon.pixel[3] * a) \div 255
        c == ((r \div 8) * 8) * 256 + ((g \div 4) * 4) * 8 + (b \div 8)
        unit == <<c \div 256, c % 256>>
        zdata == ZlibHeader \o Deflate(DIM * DIM, unit) \o Adler32(DIM * DIM, unit)
    IN  SubSeq(zdata, 3, Len(zdata) - 4)

\* coindef_from_dict succeeds when the conversions of its fields do.
DictConverts(coin) == IsHex(coin.hash_genesis_block)

\* coindef_from_dict(coin): the CoinDef message with the coin's fields.
coindef_from_dict(coin) ==
    [ address_type |-> coin.address_type,
      address_type_p2sh |-> coin.address_type_p2sh,
      signed_message_header |-> Utf8(coin.signed_message_header),
      hash_genesis_block |-> unhexlify(coin.hash_genesis_block),
      icon |-> <<>> ]

\* protobuf wire encoding: varint, and (tag, type) key bytes.
Varint(n) == IF n < 128 THEN <<n>> ELSE <<128 + (n % 128), n \div 128>>
UvarintField(tag, n) == <<tag * 8>> \o Varint(n)
BytesField(tag, bytes) == <<tag * 8 + 2>> \o Varint(Len(bytes)) \o bytes

\* protobuf.dump_message over the fields of CoinDef, in field order.
dump_message(proto) ==
    UvarintField(1, proto.address_type)
    \o UvarintField(2, proto.address_type_p2sh)
    \o BytesField(3, proto.signed_message_header)
    \o BytesField(4, proto.hash_genesis_block)
    \o BytesField(5, proto.icon)

\* serialize_coindef(proto, icon): set the icon, dump the message.
serialize_coindef(proto, icon) ==
    dump_message([proto EXCEPT !.icon = icon])

\* sha256 as an ideal hash on the messages of the model: a fixed-length
\* digest that differs for different messages (the padded message itself).
sha256(data) ==
    [ i \in 1..DigestLen |->
        IF i <= Len(data) THEN data[i]
        ELSE IF i = Len(data) + 1 THEN 128 ELSE 0 ]

sign_key == [i \in 1..KeyLen |-> 65]

\* ed25519 as an ideal deterministic signature: 2 * KeyLen bytes fixed by the
\* key and the message signed.
SigByte(key, msg, i) ==
    IF i <= KeyLen THEN (msg[((i - 1) % DigestLen) + 1] + key[i]) % 256
    ELSE (msg[((i - 1) % DigestLen) + 1] + 2 * key[i - KeyLen] + i) % 256

ed25519_sign(key, msg) == [i \in 1..(2 * KeyLen) |-> SigByte(key, msg, i)]

\* The verifying key of a signing key, and verification of `sig` over `msg`:
\* it succeeds for the signature the key's owner makes of msg, and no other.
verifying_key(key) == [i \in DOMAIN key |-> (key[i] * 3) % 256]
ed25519_verify(pub, sig, msg) ==
    /\ Len(sig) = 2 * KeyLen
    /\ \A i \in 1..(2 * KeyLen) : sig[i] = SigByte(sign_key, msg, i)
    /\ pub = verifying_key(sign_key)

\* sign(data): the signature of the digest of data under the fixed key.
sign(data) == ed25519_sign(sign_key, sha256(data))

\* coin_definition signing the message before the icon is set.
coin_definition_signs_early(coin) ==
    LET proto == coindef_from_dict(coin)
        sig == sign(dump_message(proto))
        ser == serialize_coindef(proto, convert_icon(coin.icon))
    IN  hexlify(sig \o ser)

\* Lines 296-298 of coindefs for one coin: the hex of signature || payload.
coin_definition(coin) ==
    LET ser == serialize_coindef(coindef_from_dict(coin), convert_icon(coin.icon))
        sig == sign(ser)
    IN  hexlify(sig \o ser)

\* ------------------------------------------------------------- program state
VARIABLES
    cmd,                \* the click command invoked
    opts,               \* its options: check_missing_support, backend_check
    env,                \* module globals: CAN_RENDER, requests, CAN_BUILD_DEFS
    pc,                 \* position in the command handler
    defs,               \* coin_info.get_all(), once loaded
    loaded,             \* whether coin_info.get_all() has been called
    support_data,       \* coin_info.get_support_data(), once loaded
    all_checks_passed,  \* check's flag
    stdout,             \* the lines printed
    exit_code,          \* -1 while running, then the process's exit status
    ran,                \* which validation functions ran, and their results
    validated,          \* records validate_btc / validate_support were applied to
    idx,                \* coindefs: index of the next coin
    coindefs_dict,      \* coindefs: the key -> definition dict being built
    failed,             \* coindefs: the key of the coin whose processing raised
    outfile,            \* coindefs: what was written to the output file
    rendered            \* render: the targets written

vars == <<cmd, opts, env, pc, defs, loaded, support_data, all_checks_passed,
          stdout, exit_code, ran, validated, idx, coindefs_dict, failed,
          outfile, rendered>>

NoDefs == [coins |-> <<>>, misc |-> <<>>, other |-> <<>>]
NotRun == [done |-> FALSE, passed |-> TRUE, out |-> <<>>]
Unwritten == [written |-> FALSE, content |-> <<>>]
Running == 0 - 1

\* The registry around the bitcoin-like coins: one misc coin, one token.
Registry(coins) ==
    [ coins |-> coins,
      misc |-> <<[key |-> MiscKey, name |-> MiscKey]>>,
      other |-> <<[key |-> TokenKey, name |-> TokenKey]>> ]

\* The contents support.json can have for a registry of n bitcoin-like coins.
SupportDatas(n) ==
    LET keys == { CoinKeys[i] : i \in 1..n } \cup {MiscKey, TokenKey, UnknownKey}
    IN  UNION { [K -> SupportEntries] : K \in SUBSET keys }

\* The environments: what the optional imports made available.  Only the
\* libraries the invoked command reads are varied.
Envs(c, o) ==
    { e \in [CAN_RENDER : BOOLEAN, requests : BOOLEAN, CAN_BUILD_DEFS : BOOLEAN] :
        /\ (c # "render" => e.CAN_RENDER)
        /\ (~(c = "check" /\ o.backend_check) => e.requests)
        /\ (c # "coindefs" => e.CAN_BUILD_DEFS) }

Init ==
    /\ cmd \in {"check", "coindefs", "render"}
    /\ opts \in [check_missing_support : BOOLEAN, backend_check : BOOLEAN]
    /\ (cmd # "check" => opts = [check_missing_support |-> FALSE,
                                 backend_check |-> FALSE])
    /\ env \in Envs(cmd, opts)
    /\ pc = "start"
    /\ defs = NoDefs
    /\ loaded = FALSE
    /\ support_data = <<>>
    /\ all_checks_passed = TRUE
    /\ stdout = <<>>
    /\ exit_code = Running
    /\ ran = [btc |-> NotRun, support |-> NotRun, backends |-> NotRun]
    /\ validated = [btc |-> {}, support |-> {}]
    /\ idx = 1
    /\ coindefs_dict = <<>>
    /\ failed = ""
    /\ outfile = Unwritten
    /\ rendered = {}

\* ---------------------------------------------------------------- `check`
\* raise click.ClickException("You must install requests for backend check")
CheckRefuse ==
    /\ cmd = "check" /\ pc = "start"
    /\ opts.backend_check /\ ~env.requests
    /\ pc' = "refused"
    /\ exit_code' = 1
    /\ stdout' = stdout \o <<Line("Error", "You must install requests for backend check", "")>>
    /\ UNCHANGED <<cmd, opts, env, defs, loaded, support_data, all_checks_passed,
                   ran, validated, idx, coindefs_dict, failed, outfile, rendered>>

\* defs = coin_info.get_all(); all_checks_passed = True
CheckLoad ==
    /\ cmd = "check" /\ pc = "start"
    /\ ~(opts.backend_check /\ ~env.requests)
    /\ \E f \in CoinLists(IconsGood, GenesisGood) : defs' = Registry(MkCoins(f))
    /\ loaded' = TRUE
    /\ all_checks_passed' = TRUE
    /\ pc' = "check_btc"
    /\ UNCHANGED <<cmd, opts, env, support_data, stdout, exit_code, ran, validated,
                   idx, coindefs_dict, failed, outfile, rendered>>

\* print("Checking BTC-like coins..."); if not check_btc(defs.coins): ...
CheckBtc ==
    /\ cmd = "check" /\ pc = "check_btc"
    /\ LET res == check_btc(defs.coins)
       IN  /\ stdout' = stdout \o <<Line("", "Checking BTC-like coins...", "")>> \o res.out
           /\ ran' = [ran EXCEPT !.btc = [done |-> TRUE, passed |-> res.check_passed,
                                         out |-> res.out]]
           /\ validated' = [validated EXCEPT !.btc = res.validated]
           /\ all_checks_passed' = IF ~res.check_passed THEN FALSE ELSE all_checks_passed
    /\ pc' = "check_support"
    /\ UNCHANGED <<cmd, opts, env, defs, loaded, support_data, exit_code,
                   idx, coindefs_dict, failed, outfile, rendered>>

\* print("Checking support data..."); support_data = get_support_data();
\* if not check_support(defs, support_data, fail_missing=...): ...
CheckSupport ==
    /\ cmd = "check" /\ pc = "check_support"
    /\ \E sd \in SupportDatas(Len(defs.coins)) :
         LET res == check_support(defs, sd, opts.check_missing_support)
         IN  /\ support_data' = sd
             /\ stdout' = stdout \o <<Line("", "Checking support data...", "")>> \o res.out
             /\ ran' = [ran EXCEPT !.support = [done |-> TRUE, passed |-> res.check_passed,
                                         out |-> res.out]]
             /\ validated' = [validated EXCEPT !.support = res.validated]
             /\ all_checks_passed' = IF ~res.check_passed THEN FALSE ELSE all_checks_passed
    /\ pc' = IF opts.backend_check THEN "check_backends" ELSE "decide"
    /\ UNCHANGED <<cmd, opts, env, defs, loaded, exit_code,
                   idx, coindefs_dict, failed, outfile, rendered>>

\* The outcomes of the probes: the coins whose backend fails (at most one).
ProbeOutcomes(coins) == {{}} \cup { {i} : i \in DOMAIN coins }

\* check_backends(coins): a coin with a genesis hash and backends is probed;
\* any probe may fail.  The registry of the model lists one backend per coin.
check_backends(coins, bad) ==
    [ check_passed |-> ~(\E i \in DOMAIN coins :
                           /\ coins[i].hash_genesis_block # <<>>
                           /\ i \in bad),
      out |-> [i \in DOMAIN coins |->
                 Line("checking", IF i \in bad THEN "genesis block mismatch" ELSE "OK",
                      coins[i].key)] ]

\* if backend_check: print(...); if not check_backends(defs.coins): ...
CheckBackends ==
    /\ cmd = "check" /\ pc = "check_backends"
    /\ \E bad \in ProbeOutcomes(defs.coins) :
         LET res == check_backends(defs.coins, bad)
         IN  /\ stdout' = stdout \o <<Line("", "Checking backend responses...", "")>> \o res.out
             /\ ran' = [ran EXCEPT !.backends = [done |-> TRUE, passed |-> res.check_passed,
                                         out |-> res.out]]
             /\ all_checks_passed' = IF ~res.check_passed THEN FALSE ELSE all_checks_passed
    /\ pc' = "decide"
    /\ UNCHANGED <<cmd, opts, env, defs, loaded, support_data, exit_code, validated,
                   idx, coindefs_dict, failed, outfile, rendered>>

\* check ending without sys.exit(1).
check_status_no_exit(passed) == 0

\* The exit status `check` ends with, given its flag.
check_status(passed) == IF ~passed THEN 1 ELSE 0

\* if not all_checks_passed: print("Some checks failed."); sys.exit(1)
\* else: print("Everything is OK.")
CheckDecide ==
    /\ cmd = "check" /\ pc = "decide"
    /\ exit_code' = check_status(all_checks_passed)
    /\ stdout' = stdout \o <<Line("", IF exit_code' = 1 THEN "Some checks failed."
                                       ELSE "Everything is OK.", "")>>
    /\ pc' = "done"
    /\ UNCHANGED <<cmd, opts, env, defs, loaded, support_data, all_checks_passed,
                   ran, validated, idx, coindefs_dict, failed, outfile, rendered>>

\* --------------------------------------------------------------- `coindefs`
\* coins = coin_info.get_all().coins; coindefs = {}
CoindefsLoad ==
    /\ cmd = "coindefs" /\ pc = "start"
    /\ \E f \in CoinLists(IconsAll, GenesisAll) : defs' = Registry(MkCoins(f))
    /\ loaded' = TRUE
    /\ coindefs_dict' = <<>>
    /\ idx' = 1
    /\ pc' = "coins"
    /\ UNCHANGED <<cmd, opts, env, support_data, all_checks_passed, stdout, exit_code,
                   ran, validated, failed, outfile, rendered>>

\* Whether the body of the loop (lines 294-299) runs through for `coin`:
\* the names imported at lines 28-35 exist, the icon opens and converts and
\* the fields of the coin convert.
CoinEncodes(e, coin) ==
    /\ e.CAN_BUILD_DEFS
    /\ IconOpens(coin.icon)
    /\ DictConverts(coin)
    /\ IconConverts(coin.icon)

\* The exception the body of the loop raises for `coin`.
CoinRaises(e, coin) ==
    IF ~e.CAN_BUILD_DEFS THEN "NameError"
    ELSE IF ~IconOpens(coin.icon) THEN "FileNotFoundError"
    ELSE IF ~DictConverts(coin) THEN "binascii.Error"
    ELSE "ValueError"

\* coindefs[key] = definition
DictSet(d, key, val) ==
    [k \in DOMAIN d \cup {key} |-> IF k = key THEN val ELSE d[k]]

\* One iteration of `for coin in coins` that runs through.
CoindefsCoin ==
    /\ cmd = "coindefs" /\ pc = "coins"
    /\ idx <= Len(defs.coins)
    /\ CoinEncodes(env, defs.coins[idx])
    /\ coindefs_dict' = DictSet(coindefs_dict, defs.coins[idx].key,
                                coin_definition(defs.coins[idx]))
    /\ idx' = idx + 1
    /\ UNCHANGED <<cmd, opts, env, pc, defs, loaded, support_data, all_checks_passed,
                   stdout, exit_code, ran, validated, failed, outfile, rendered>>

\* One iteration that raises: nothing catches it, the command ends.
CoindefsRaise ==
    /\ cmd = "coindefs" /\ pc = "coins"
    /\ idx <= Len(defs.coins)
    /\ ~CoinEncodes(env, defs.coins[idx])
    /\ failed' = defs.coins[idx].key
    /\ stdout' = stdout \o <<Line("Traceback", CoinRaises(env, defs.coins[idx]),
                                  defs.coins[idx].key)>>
    /\ exit_code' = 1
    /\ pc' = "crashed"
    /\ UNCHANGED <<cmd, opts, env, defs, loaded, support_data, all_checks_passed,
                   ran, validated, idx, coindefs_dict, outfile, rendered>>

\* with outfile: json.dump(coindefs, outfile, ...)
CoindefsWrite ==
    /\ cmd = "coindefs" /\ pc = "coins"
    /\ idx > Len(defs.coins)
    /\ outfile' = [written |-> TRUE, content |-> coindefs_dict]
    /\ exit_code' = 0
    /\ pc' = "done"
    /\ UNCHANGED <<cmd, opts, env, defs, loaded, support_data, all_checks_passed,
                   stdout, ran, validated, idx, coindefs_dict, failed, rendered>>

\* ----------------------------------------------------------------- `render`
\* The path arguments: nothing, a directory of templates, a template, a file
\* that is no template, a path that does not exist.
RenderPaths ==
    { <<>>, <<"templates">>, <<"coins.c.mako">>, <<"coins.c">>, <<"nowhere">> }

\* The files a path contributes (lines 326-332).
FilesOf(path) ==
    IF path = "nowhere" THEN <<>>
    ELSE IF path \in {"templates", "."} THEN <<"templates/nem.h.mako">>
    ELSE <<path>>

IsMako(file) == file \in {"templates/nem.h.mako", "coins.c.mako"}

\* raise click.ClickException("Please install 'mako' and 'munch'")
RenderRefuse ==
    /\ cmd = "render" /\ pc = "start"
    /\ ~env.CAN_RENDER
    /\ pc' = "refused"
    /\ exit_code' = 1
    /\ stdout' = stdout \o <<Line("Error", "Please install 'mako' and 'munch'", "")>>
    /\ UNCHANGED <<cmd, opts, env, defs, loaded, support_data, all_checks_passed,
                   ran, validated, idx, coindefs_dict, failed, outfile, rendered>>

\* The body of render: collect the files, load the registry, render each
\* template (render_file may raise, which ends the command).
Render ==
    /\ cmd = "render" /\ pc = "start"
    /\ env.CAN_RENDER
    /\ \E paths \in RenderPaths, raises \in BOOLEAN :
         LET ps == IF paths = <<>> THEN <<".">> ELSE paths
             files == FilesOf(ps[1])
             makos == { files[i] : i \in { j \in DOMAIN files : IsMako(files[j]) } }
         IN  /\ stdout' = stdout \o
                    [i \in DOMAIN files |->
                        IF IsMako(files[i]) THEN Line("", "Rendering", files[i])
                        ELSE Line("", "File does not end with .mako", files[i])]
             /\ IF raises /\ makos # {}
                THEN /\ rendered' = {}
                     /\ exit_code' = 1
                     /\ pc' = "crashed"
                ELSE /\ rendered' = makos
                     /\ exit_code' = 0
                     /\ pc' = "done"
    /\ \E f \in CoinLists(IconsGood, GenesisGood) : defs' = Registry(MkCoins(f))
    /\ loaded' = TRUE
    /\ UNCHANGED <<cmd, opts, env, support_data, all_checks_passed,
                   ran, validated, idx, coindefs_dict, failed, outfile>>

\* ------------------------------------------------------------ specification
Next ==
    \/ CheckRefuse
    \/ CheckLoad
    \/ CheckBtc
    \/ CheckSupport
    \/ CheckBackends
    \/ CheckDecide
    \/ CoindefsLoad
    \/ CoindefsCoin
    \/ CoindefsRaise
    \/ CoindefsWrite
    \/ RenderRefuse
    \/ Render

Spec == Init /\ [][Next]_vars

\* ---------------------------------------------------------------- properties
Ended == exit_code # Running

ErrKeys(lines) == { lines[i].key : i \in { j \in DOMAIN lines : lines[j].sev = "ERR" } }
LinesFor(lines, sev, msg, key) ==
    { i \in DOMAIN lines :
        lines[i].sev = sev /\ lines[i].msg = msg /\ lines[i].key = key }

\* C1: a signed definition is only ever produced after check_btc and
\* check_support have run and recorded no hard error, and `check` never
\* encodes or signs anything.
C1_EncodeOnlyAfterCleanValidate ==
    /\ (DOMAIN coindefs_dict # {} =>
            /\ ran.btc.done /\ ran.btc.passed
            /\ ran.support.done /\ ran.support.passed)
    /\ (cmd = "check" => DOMAIN coindefs_dict = {} /\ ~outfile.written)

\* C2: when a run of coindefs has ended, every coin of the list whose own
\* encoding does not fail has its signed hex blob in the output mapping,
\* whichever other coins failed.
C2_FailureDoesNotAbortBatch ==
    (cmd = "coindefs" /\ env.CAN_BUILD_DEFS /\ Ended) =>
        \A i \in DOMAIN defs.coins :
            CoinEncodes(env, defs.coins[i]) =>
                /\ outfile.written
                /\ defs.coins[i].key \in DOMAIN outfile.content
                /\ outfile.content[defs.coins[i].key] = coin_definition(defs.coins[i])

\* Whether the command's optional dependency is unavailable.
Unavailable ==
    \/ cmd = "render" /\ ~env.CAN_RENDER
    \/ cmd = "check" /\ opts.backend_check /\ ~env.requests
    \/ cmd = "coindefs" /\ ~env.CAN_BUILD_DEFS

\* C3: a command whose optional dependency is unavailable refuses to run
\* before doing any work: it never loads the coins, prints, renders or
\* writes output, and it ends refused.
C3_RefusesWhenUnavailable ==
    Unavailable =>
        /\ pc \in {"start", "refused"}
        /\ ~loaded
        /\ ~outfile.written
        /\ rendered = {}

\* The SupportRecord keys outside expected_keys (the overrides check_support
\* notes) whose entry is structurally valid.
Overrides ==
    { key \in DOMAIN support_data \ expected_coins(defs) :
        validate_support(support_data[key]) = <<>> }

\* Nothing but overrides to report: the other entries are valid entries of
\* expected keys, and no expected key lacks one under fail_missing.
OnlyOverrides ==
    /\ Overrides # {}
    /\ \A key \in DOMAIN support_data : validate_support(support_data[key]) = <<>>
    /\ (opts.check_missing_support => expected_coins(defs) \subseteq DOMAIN support_data)

SupportInvalid ==
    \E key \in DOMAIN support_data : validate_support(support_data[key]) # <<>>
SupportMissing == expected_coins(defs) \ DOMAIN support_data
SupportStale == DOMAIN support_data \ coin_set(defs)

\* C5: check_support fails exactly when an entry is structurally invalid, or
\* fail_missing is set and an expected key has no entry, or an entry's key is
\* no coin of the registry; a missing entry without fail_missing only warns;
\* and a valid entry under a known key produces no ERR line.
C5_SupportResultExact ==
    ran.support.done =>
        /\ (~ran.support.passed <=>
              \/ SupportInvalid
              \/ (opts.check_missing_support /\ SupportMissing # {})
              \/ SupportStale # {})
        /\ \A key \in SupportMissing :
              IF opts.check_missing_support
              THEN LinesFor(ran.support.out, "ERR", "Missing support info for", key) # {}
              ELSE /\ LinesFor(ran.support.out, "WARN", "Missing support info for", key) # {}
                   /\ key \notin ErrKeys(ran.support.out)
        /\ \A key \in DOMAIN support_data \cap coin_set(defs) :
              validate_support(support_data[key]) = <<>>
                  => key \notin ErrKeys(ran.support.out)

C5_Witness ==
    /\ ran.support.done /\ ran.support.passed
    /\ ~opts.check_missing_support
    /\ SupportMissing # {}
    /\ DOMAIN support_data # {}

\* The fields for which find_address_collisions reports duplicates.
CollidingFields ==
    { f \in Range(AddressFields) : DOMAIN find_address_collisions(defs.coins)[f] # {} }

\* C6: check_btc passes exactly when validate_btc returns no error for every
\* coin, whatever collisions exist, and one collision warning per colliding
\* field is printed whether or not a record failed validation.
C6_CollisionsWarnOnly ==
    ran.btc.done =>
        /\ (ran.btc.passed <=>
              \A i \in DOMAIN defs.coins : validate_btc(defs.coins[i]) = <<>>)
        /\ \A f \in Range(AddressFields) :
              Cardinality(LinesFor(ran.btc.out, "WARN", "collisions found in", f))
                  = IF f \in CollidingFields THEN 1 ELSE 0

C6_Witness ==
    /\ ran.btc.done /\ ran.btc.passed
    /\ CollidingFields # {}
    /\ Count(ran.btc.out, "WARN", "collisions found in") > 0

\* C7 as stated: `check` ends with a non-zero status exactly when an ERR
\* line (a structural record error or a hard support error) was printed.
C7_NonZeroIffHardError ==
    (cmd = "check" /\ Ended) =>
        (exit_code # 0 <=> CountSev(stdout, "ERR") > 0)

\* C7 amended: `check` ends with a non-zero status exactly when it was
\* refused for the missing requests library, or check_btc failed, or
\* check_support failed, or the requested backend check failed; otherwise
\* its last line is "Everything is OK." and the status is zero.
C7_NonZeroIffCheckFailed ==
    (cmd = "check" /\ Ended) =>
        /\ (exit_code # 0 <=>
              \/ pc = "refused"
              \/ ~ran.btc.passed
              \/ ~ran.support.passed
              \/ (opts.backend_check /\ ~ran.backends.passed))
        /\ (~opts.backend_check => (exit_code # 0 <=> CountSev(stdout, "ERR") > 0))
        /\ (exit_code = 0 =>
              /\ stdout[Len(stdout)].msg = "Everything is OK."
              /\ CountSev(stdout, "ERR") = 0)

C7_Witness ==
    /\ cmd = "check" /\ pc = "done" /\ exit_code = 0
    /\ CountSev(stdout, "WARN") > 1
    /\ CountSev(stdout, "INFO") > 0
    /\ stdout[Len(stdout)].msg = "Everything is OK."

\* C8: when `check` decides pass/fail, validate_btc has been applied to every
\* bitcoin-like record and validate_support to every SupportRecord entry, and
\* check_support has run, also when check_btc failed.
C8_NoEarlyExit ==
    (cmd = "check" /\ pc \in {"check_backends", "decide", "done"}) =>
        /\ ran.btc.done /\ ran.support.done
        /\ validated.btc = KeysOf(defs.coins)
        /\ validated.support = DOMAIN support_data

C8_Witness ==
    /\ cmd = "check" /\ pc = "done"
    /\ Len(defs.coins) > 1
    /\ validate_btc(defs.coins[1]) # <<>>
    /\ ~ran.btc.passed
    /\ ran.support.done
    /\ SupportInvalid
    /\ validated.btc = KeysOf(defs.coins)
    /\ Cardinality(validated.support) > 1

\* The number of (field, value) collision entries, and the scenario of C9:
\* valid coins of which exactly two share one address-version value, a
\* SupportRecord whose entries are valid and known, exactly one expected key
\* without entry, strict coverage, no backend check.
CollisionEntries ==
    { <<f, v>> \in Range(AddressFields) \X {0, 5, 196} :
        v \in DOMAIN find_address_collisions(defs.coins)[f] }
C9_Scenario ==
    /\ cmd = "check" /\ pc = "done"
    /\ opts.check_missing_support /\ ~opts.backend_check
    /\ \A i \in DOMAIN defs.coins : validate_btc(defs.coins[i]) = <<>>
    /\ Cardinality(CollisionEntries) = 1
    /\ \A e \in CollisionEntries :
          Len(find_address_collisions(defs.coins)[e[1]][e[2]]) = 2
    /\ ~SupportInvalid
    /\ SupportStale = {}
    /\ Cardinality(SupportMissing) = 1

SigLen == 2 * KeyLen
SigOf(blob) == SubSeq(blob, 1, SigLen)
PayloadOf(blob) == SubSeq(blob, SigLen + 1, Len(blob))
CoinOfKey(key) == defs.coins[CHOOSE i \in DOMAIN defs.coins : defs.coins[i].key = key]

\* C10: every entry of the mapping coindefs writes is the hex of signature ||
\* payload, the payload being the serialized record of its coin with the
\* icon field last; the signature verifies against the digest of the payload
\* with the public key, and against the digest of no payload that differs
\* from it in one byte.
C10_SignatureCoversPayload ==
    \A key \in DOMAIN outfile.content :
        LET hex == outfile.content[key]
            blob == unhexlify(hex)
            sig == SigOf(blob)
            payload == PayloadOf(blob)
            coin == CoinOfKey(key)
            iconf == BytesField(5, convert_icon(coin.icon))
        IN  /\ IsHex(hex)
            /\ hexlify(blob) = hex
            /\ Len(blob) > SigLen
            /\ payload = serialize_coindef(coindef_from_dict(coin), convert_icon(coin.icon))
            /\ SubSeq(payload, Len(payload) - Len(iconf) + 1, Len(payload)) = iconf
            /\ ed25519_verify(verifying_key(sign_key), sig, sha256(payload))
            /\ \A i \in DOMAIN payload : \A v \in 0..255 :
                  v # payload[i] =>
                    ~ed25519_verify(verifying_key(sign_key), sig,
                                    sha256([payload EXCEPT ![i] = v]))

C10_Witness ==
    /\ outfile.written
    /\ Cardinality(DOMAIN outfile.content) > 1
    /\ outfile.content = coindefs_dict

====
